---- MODULE Spec2Model ----
\* A model of the lsystem crate (src/src/lib.rs): a grammar definition
\* (LSystemType: an axiom and a production rule) and the producers
\* (LSystemIterator) that iter() creates from it and next() advances.
EXTENDS Naturals, Sequences, FiniteSets, TLC

\* ------------------------------------------------------------------ bounds

\* Longest axiom handed to new().
MaxAxiomLen == 2
\* Longest replacement sequence a production rule returns for one symbol.
MaxRuleLen == 2
\* Longest generation a producer is advanced to.
MaxLen == 8
\* Most next() calls made on one producer.
MaxPulls == 5
\* The alphabet: the values of the type T (the Algae enum of the crate doc).
Symbols == {"A", "B"}

\* The producers obtained from the one grammar definition: two, to interleave.
Producers == {1, 2}

\* Vec<T> values of bounded length.
Vecs(n) == UNION {[1..k -> Symbols] : k \in 0..n}

\* ProductionRule<T> = fn(T) -> Vec<T>.  A rule is a function from the symbols
\* it handles to their replacement; a symbol outside its domain is one the
\* rule function fails on (a non-exhaustive rule panics).
ProductionRule == UNION {[D -> Vecs(MaxRuleLen)] : D \in SUBSET Symbols}

\* The rule is defined on every symbol of the alphabet.
Total(rules) == DOMAIN rules = Symbols

\* ------------------------------------------------------------ Option values

Some(v) == [tag |-> "Some", val |-> v]
None == [tag |-> "None", val |-> <<>>]
\* next() did not return: the rule's panic unwound through it.
Panicked == [tag |-> "panic", val |-> <<>>]

\* No producer has been created in this slot yet.
NoIter == [current_state |-> <<>>, rules |-> <<>>, zeroth |-> FALSE, live |-> FALSE]

\* ------------------------------------------------------------- LSystemType

\* LSystemType::new
new(axiom, rules) == [axiom |-> axiom, rules |-> rules]

\* Vec::clone: an equal, independently owned vector.
clone(v) == [i \in 1..Len(v) |-> v[i]]

\* LSystemType::iter
iter(self) ==
    [current_state |-> clone(self.axiom),
     rules |-> self.rules,
     zeroth |-> TRUE,
     live |-> TRUE]

\* --------------------------------------------------------- LSystemIterator

\* push_all as a bug would have it: the entry is put in front of new_state.
push_all_front(v, slice) == slice \o v

\* push_all as a bug would have it: push of the entry's first element only.
push_all_first_only(v, slice) == IF slice = <<>> THEN v ELSE Append(v, slice[1])

\* Vec::push_all: append the slice's elements, in order, at the end.
push_all(v, slice) == v \o slice

\* The loop as a bug would have it: the replacement depends on the left
\* neighbour, an element equal to the one before it is replaced by nothing.
RECURSIVE RewriteLoop_drops_repeat(_, _, _, _)
RewriteLoop_drops_repeat(rules, current_state, i, acc) ==
    IF i > Len(current_state) THEN acc
    ELSE LET element == current_state[i]
         IN  IF element \notin DOMAIN rules
             THEN [acc EXCEPT !.calls = Append(@, element), !.panicked = TRUE]
             ELSE LET entry == IF i > 1 /\ current_state[i - 1] = element
                               THEN <<>> ELSE rules[element]
                  IN  RewriteLoop_drops_repeat(rules, current_state, i + 1,
                          [new_state |-> push_all(acc.new_state, entry),
                           calls |-> Append(acc.calls, element),
                           panicked |-> FALSE])

\* The for loop of next(): the elements of current_state from index i on, in
\* order; each is handed to the rule and its entry pushed onto new_state.
\* calls records the arguments the rule was invoked on, in invocation order.
RECURSIVE RewriteLoop(_, _, _, _)
RewriteLoop(rules, current_state, i, acc) ==
    IF i > Len(current_state) THEN acc
    ELSE LET element == current_state[i]
         IN  IF element \notin DOMAIN rules
             THEN [acc EXCEPT !.calls = Append(@, element), !.panicked = TRUE]
             ELSE LET entry == rules[element]
                  IN  RewriteLoop(rules, current_state, i + 1,
                          [new_state |-> push_all(acc.new_state, entry),
                           calls |-> Append(acc.calls, element),
                           panicked |-> FALSE])

\* The loop as a bug would have it: it starts at the second element.
Rewrite_skips_first(rules, current_state) ==
    RewriteLoop(rules, current_state, 2,
                [new_state |-> <<>>, calls |-> <<>>, panicked |-> FALSE])

\* let mut new_state = Vec::new(), then the loop over all of current_state.
Rewrite(rules, current_state) ==
    RewriteLoop(rules, current_state, 1,
                [new_state |-> <<>>, calls |-> <<>>, panicked |-> FALSE])

\* The "n = 0" branch as a bug would have it: the flag is never cleared.
ZerothBranch_keeps_flag(self) ==
    [self |-> self,
     result |-> Some(clone(self.current_state)),
     calls |-> <<>>]

\* The "n = 0" branch as a bug would have it: the axiom is returned and the
\* state already advanced to the next generation.
ZerothBranch_advances(self) ==
    LET r == Rewrite(self.rules, self.current_state)
    IN  [self |-> [self EXCEPT !.zeroth = FALSE,
                               !.current_state =
                                   IF r.panicked THEN @ ELSE r.new_state],
         result |-> Some(clone(self.current_state)),
         calls |-> r.calls]

\* next(), the "n = 0" branch: clear the flag, return a clone of the state.
ZerothBranch(self) ==
    [self |-> [self EXCEPT !.zeroth = FALSE],
     result |-> Some(clone(self.current_state)),
     calls |-> <<>>]

\* The rewriting branch as a bug would have it: an empty generation ends the
\* iteration (None), as an exhausted iterator would.
RewriteBranch_none_on_empty(self) ==
    LET r == Rewrite(self.rules, self.current_state)
    IN  IF r.panicked
        THEN [self |-> self, result |-> Panicked, calls |-> r.calls]
        ELSE [self |-> [self EXCEPT !.current_state = r.new_state],
              result |-> IF r.new_state = <<>> THEN None ELSE Some(r.new_state),
              calls |-> r.calls]

\* The rewriting branch as a bug would have it: a generation equal to the one
\* before it ends the iteration (None): termination detection.
RewriteBranch_none_on_fixpoint(self) ==
    LET r == Rewrite(self.rules, self.current_state)
    IN  IF r.panicked
        THEN [self |-> self, result |-> Panicked, calls |-> r.calls]
        ELSE [self |-> [self EXCEPT !.current_state = r.new_state],
              result |-> IF r.new_state = self.current_state
                         THEN None ELSE Some(r.new_state),
              calls |-> r.calls]

\* The rewriting branch as a bug would have it: new_state starts as the old
\* generation instead of Vec::new().
RewriteBranch_keeps_old(self) ==
    LET r == RewriteLoop(self.rules, self.current_state, 1,
                 [new_state |-> self.current_state, calls |-> <<>>,
                  panicked |-> FALSE])
    IN  IF r.panicked
        THEN [self |-> self, result |-> Panicked, calls |-> r.calls]
        ELSE [self |-> [self EXCEPT !.current_state = r.new_state],
              result |-> Some(r.new_state),
              calls |-> r.calls]

\* The rewriting branch as a bug would have it: the new generation is
\* returned and never stored in current_state.
RewriteBranch_not_stored(self) ==
    LET r == Rewrite(self.rules, self.current_state)
    IN  IF r.panicked
        THEN [self |-> self, result |-> Panicked, calls |-> r.calls]
        ELSE [self |-> self, result |-> Some(r.new_state), calls |-> r.calls]

\* The rewriting branch as a bug would have it: the entries are pushed
\* straight into the producer's state, so a panic leaves what was built.
RewriteBranch_stores_partial(self) ==
    LET r == Rewrite(self.rules, self.current_state)
        stored == [self EXCEPT !.current_state = r.new_state]
    IN  IF r.panicked
        THEN [self |-> stored, result |-> Panicked, calls |-> r.calls]
        ELSE [self |-> stored, result |-> Some(clone(stored.current_state)),
              calls |-> r.calls]

\* next(), the rewriting branch: build new_state, store it, return a clone.
\* A panic of the rule unwinds before the assignment to current_state.
RewriteBranch(self) ==
    LET r == Rewrite(self.rules, self.current_state)
    IN  IF r.panicked
        THEN [self |-> self, result |-> Panicked, calls |-> r.calls]
        ELSE LET stored == [self EXCEPT !.current_state = r.new_state]
             IN  [self |-> stored,
                  result |-> Some(clone(stored.current_state)),
                  calls |-> r.calls]

\* next() as a bug would have it: no "n = 0" case, every call rewrites.
next_always_rewrites(self) == RewriteBranch([self EXCEPT !.zeroth = FALSE])

\* LSystemIterator::next
next(self) == IF self.zeroth THEN ZerothBranch(self) ELSE RewriteBranch(self)

\* Iterator::skip(n) followed by next(), as the crate doc uses it: next() is
\* called on the producer n times, the values dropped, and the value of one
\* more call handed out; a call that does not return Some ends it there.
\* acc collects the producer, and what every next() call returned and invoked.
RECURSIVE SkipLoop(_, _, _)
SkipLoop(self, n, acc) ==
    LET r == next(self)
        acc2 == [self |-> r.self,
                 results |-> Append(acc.results, r.result),
                 calls |-> Append(acc.calls, r.calls)]
    IN  IF n = 0 \/ r.result.tag # "Some" THEN acc2
        ELSE SkipLoop(r.self, n - 1, acc2)

skip_next(self, n) ==
    SkipLoop(self, n, [self |-> self, results |-> <<>>, calls |-> <<>>])

\* The algae rule of the crate doc: A -> [A, B], B -> [A].
algae_rule == [input \in Symbols |->
                  IF input = "A" THEN <<"A", "B">> ELSE <<"A">>]

\* ------------------------------------------------------------------- state

VARIABLES
    arg_axiom,   \* the axiom handed to new()
    arg_rules,   \* the rule handed to new()
    lsystem,     \* the LSystemType value
    iters,       \* the LSystemIterator values, by producer
    returned,    \* per producer, what each of its next() calls returned
    calls        \* per producer and next() call, the symbols the rule was invoked on

vars == <<arg_axiom, arg_rules, lsystem, iters, returned, calls>>

\* &mut self as a bug would have it: the producers share one generation
\* state, a next() on one is seen by every live producer.
Store_shared(its, p, it) ==
    [q \in DOMAIN its |-> IF q = p \/ its[q].live THEN it ELSE its[q]]

\* &mut self: next() writes the producer it is called on, and no other.
Store(its, p, it) == [its EXCEPT ![p] = it]

Init ==
    /\ arg_axiom \in Vecs(MaxAxiomLen)
    /\ arg_rules \in ProductionRule
    /\ lsystem = new(arg_axiom, arg_rules)
    /\ iters = [p \in Producers |-> NoIter]
    /\ returned = [p \in Producers |-> <<>>]
    /\ calls = [p \in Producers |-> <<>>]

\* iter() as a bug would have it: the axiom is moved out of the grammar
\* instead of cloned, leaving it empty.
Iter_takes_axiom(p) ==
    /\ ~iters[p].live
    /\ iters' = Store(iters, p, iter(lsystem))
    /\ lsystem' = [lsystem EXCEPT !.axiom = <<>>]
    /\ UNCHANGED <<arg_axiom, arg_rules, returned, calls>>

\* let it = lsystem.iter(): iter() takes &self, the grammar is only read.
Iter(p) ==
    /\ ~iters[p].live
    /\ iters' = Store(iters, p, iter(lsystem))
    /\ UNCHANGED <<arg_axiom, arg_rules, lsystem, returned, calls>>

\* next() as a bug would have it: the new generation is also written back as
\* the grammar's axiom.
Pull_updates_axiom(p) ==
    /\ iters[p].live
    /\ Len(returned[p]) < MaxPulls
    /\ LET r == next(iters[p])
       IN  /\ Len(r.self.current_state) <= MaxLen
           /\ iters' = Store(iters, p, r.self)
           /\ returned' = [returned EXCEPT ![p] = Append(@, r.result)]
           /\ calls' = [calls EXCEPT ![p] = Append(@, r.calls)]
           /\ lsystem' = [lsystem EXCEPT !.axiom = r.self.current_state]
    /\ UNCHANGED <<arg_axiom, arg_rules>>

\* it.next() on producer p.
Pull(p) ==
    /\ iters[p].live
    /\ Len(returned[p]) < MaxPulls
    /\ LET r == next(iters[p])
       IN  /\ Len(r.self.current_state) <= MaxLen
           /\ iters' = Store(iters, p, r.self)
           /\ returned' = [returned EXCEPT ![p] = Append(@, r.result)]
           /\ calls' = [calls EXCEPT ![p] = Append(@, r.calls)]
    /\ UNCHANGED <<arg_axiom, arg_rules, lsystem>>

\* Every generation that skip(n).next() builds from self is within MaxLen.
RECURSIVE WithinMaxLen(_, _)
WithinMaxLen(self, n) ==
    LET r == next(self)
    IN  IF Len(r.self.current_state) > MaxLen THEN FALSE
        ELSE IF n = 0 \/ r.result.tag # "Some" THEN TRUE
        ELSE WithinMaxLen(r.self, n - 1)

\* lsystem.iter().skip(n).next(): a new producer, advanced n + 1 times.
SkipNext(p, n) ==
    /\ ~iters[p].live
    /\ WithinMaxLen(iter(lsystem), n)
    /\ LET r == skip_next(iter(lsystem), n)
       IN  /\ iters' = Store(iters, p, r.self)
           /\ returned' = [returned EXCEPT ![p] = r.results]
           /\ calls' = [calls EXCEPT ![p] = r.calls]
    /\ UNCHANGED <<arg_axiom, arg_rules, lsystem>>

Next ==
    \E p \in Producers :
        \/ Iter(p)
        \/ Pull(p)
        \/ \E n \in 0..(MaxPulls - 1) : SkipNext(p, n)

Spec == Init /\ [][Next]_vars

\* ------------------------------------------------ reference definitions

\* rule(s1) ++ rule(s2) ++ ... ++ rule(sm), by recursion on the sequence.
RECURSIVE ConcatRule(_, _)
ConcatRule(rules, s) ==
    IF s = <<>> THEN <<>> ELSE rules[Head(s)] \o ConcatRule(rules, Tail(s))

\* The axiom rewritten n times.
RECURSIVE Generation(_, _, _)
Generation(rules, axiom, n) ==
    IF n = 0 THEN axiom ELSE ConcatRule(rules, Generation(rules, axiom, n - 1))

\* Len(rule(s1)) + ... + Len(rule(sm)).
RECURSIVE SumLen(_, _)
SumLen(rules, s) ==
    IF s = <<>> THEN 0 ELSE Len(rules[Head(s)]) + SumLen(rules, Tail(s))

\* The rule is defined on every symbol of s.
DefinedOn(rules, s) == \A i \in 1..Len(s) : s[i] \in DOMAIN rules

\* What k successive next() calls on a producer return, pulled alone.
RECURSIVE PulledAlone(_, _)
PulledAlone(self, k) ==
    IF k = 0 THEN <<>>
    ELSE LET r == next(self) IN <<r.result>> \o PulledAlone(r.self, k - 1)

identity_rule == [s \in Symbols |-> <<s>>]

Pulls(p) == Len(returned[p])

\* --------------------------------------------------------------- claims

\* C1: the first next() on a producer fresh from iter() returns Some(A), A
\* the axiom given to new(): same symbols, order and multiplicity, whatever
\* the rule (no rule is applied).
C1_Generation0Identity ==
    \A p \in Producers : Pulls(p) >= 1 => returned[p][1] = Some(arg_axiom)

C1_Witness ==
    \E p \in Producers :
        /\ Pulls(p) = 1
        /\ arg_axiom = <<"A", "A">>
        /\ Total(arg_rules)
        /\ arg_rules["A"] = <<"B", "A">>

\* C2: if the k-th next() returned [s1, ..., sm] (the rule defined on each),
\* the (k+1)-th returns exactly rule(s1) ++ ... ++ rule(sm).
C2_OrderPreservingStep ==
    \A p \in Producers : \A k \in 1..(Pulls(p) - 1) :
        (returned[p][k].tag = "Some" /\ DefinedOn(arg_rules, returned[p][k].val))
            => returned[p][k + 1] = Some(ConcatRule(arg_rules, returned[p][k].val))

C2_Witness ==
    \E p \in Producers :
        /\ arg_axiom = <<"A", "B">>
        /\ arg_rules = algae_rule
        /\ Pulls(p) = 3
        /\ returned[p][2] = Some(<<"A", "B", "A">>)
        /\ returned[p][3] = Some(<<"A", "B", "A", "A", "B">>)

\* Generations 0..4 of the algae system, as the crate doc and the spec list them.
AlgaeGenerations ==
    << <<"B">>, <<"A">>, <<"A", "B">>, <<"A", "B", "A">>,
       <<"A", "B", "A", "A", "B">> >>

\* C3: the algae system (axiom [B], A -> [A, B], B -> [A]) returns [B], [A],
\* [A, B], [A, B, A], [A, B, A, A, B]; and for any total rule the
\* (n+1)-th value is the axiom rewritten n times.
C3_AlgaeSystem ==
    \A p \in Producers : \A k \in 1..Pulls(p) :
        /\ (arg_axiom = <<"B">> /\ arg_rules = algae_rule /\ k <= Len(AlgaeGenerations))
              => returned[p][k] = Some(AlgaeGenerations[k])
        /\ Total(arg_rules)
              => returned[p][k] = Some(Generation(arg_rules, arg_axiom, k - 1))

C3_Witness ==
    \E p \in Producers :
        /\ arg_axiom = <<"B">>
        /\ arg_rules = algae_rule
        /\ Pulls(p) = 5
        /\ returned[p][5] = Some(<<"A", "B", "A", "A", "B">>)

\* C4: with a total rule every next() returns Some(generation), never None,
\* also for the empty axiom and for generations that have shrunk to empty.
C4_NeverExhausted ==
    \A p \in Producers : \A k \in 1..Pulls(p) :
        Total(arg_rules) => returned[p][k].tag = "Some"

C4_Witness ==
    \E p \in Producers :
        /\ arg_axiom = <<"A">>
        /\ Total(arg_rules)
        /\ arg_rules["A"] = <<>>
        /\ Pulls(p) = 4
        /\ returned[p][2] = Some(<<>>)
        /\ returned[p][4] = Some(<<>>)

\* Each producer has returned what it returns when pulled alone.
C5_PulledAloneInv ==
    \A p \in Producers :
        returned[p] = PulledAlone(iter(new(arg_axiom, arg_rules)), Pulls(p))

\* A step that makes no next() call on a live producer leaves it unchanged.
C5_Frame ==
    \A q \in Producers :
        (iters[q].live /\ returned'[q] = returned[q]) => iters'[q] = iters[q]

\* C5: under every interleaving each producer returns what it returns when
\* pulled alone, and a step that makes no next() call on a live producer
\* leaves that producer's generation state and zeroth flag unchanged.
C5_Independence == [](C5_PulledAloneInv) /\ [][C5_Frame]_vars

C5_Witness ==
    /\ arg_axiom = <<"A", "B">>
    /\ arg_rules = algae_rule
    /\ Pulls(1) = 3
    /\ Pulls(2) = 2
    /\ iters[1].current_state # iters[2].current_state

\* C6: iter() and next() never change the grammar: its axiom and rule stay
\* the values given to new(), and a producer not yet pulled is axiom-pending
\* with state equal to that axiom, whenever it was created.
C6_GrammarUnchanged ==
    /\ lsystem.axiom = arg_axiom
    /\ lsystem.rules = arg_rules
    /\ \A p \in Producers :
          (iters[p].live /\ Pulls(p) = 0)
              => (iters[p].zeroth /\ iters[p].current_state = arg_axiom)

C6_Witness ==
    /\ arg_axiom = <<"B">>
    /\ arg_rules = algae_rule
    /\ Pulls(1) = 4
    /\ iters[1].current_state = <<"A", "B", "A">>
    /\ iters[2].live
    /\ Pulls(2) = 0

\* C7: any two producers of the grammar agree on their k-th returned value,
\* for every k both have reached.
C7_Determinism ==
    \A p, q \in Producers : \A k \in 1..Pulls(p) :
        k <= Pulls(q) => returned[p][k] = returned[q][k]

C7_Witness ==
    /\ arg_axiom = <<"B", "A">>
    /\ arg_rules = algae_rule
    /\ Pulls(1) = 3
    /\ Pulls(2) = 3
    /\ returned[2][3] = Some(<<"A", "B", "A", "B", "A">>)

\* C8: with an axiom of length 0 every next() returns Some of the empty
\* sequence, for any rule, and the rule is never invoked.
C8_EmptyAxiom ==
    arg_axiom = <<>> =>
        \A p \in Producers : \A k \in 1..Pulls(p) :
            returned[p][k] = Some(<<>>) /\ calls[p][k] = <<>>

C8_Witness ==
    \E p \in Producers :
        /\ arg_axiom = <<>>
        /\ DOMAIN arg_rules = {"A"}
        /\ arg_rules["A"] = <<"A", "A">>
        /\ Pulls(p) = 3

\* C9: with axiom [A] and rule A -> [A, A] the (n+1)-th next() returns 2^n
\* symbols, all A; and the length of each generation is the sum of the
\* lengths of rule(s) over the symbols s of the generation before it.
C9_GrowthRate ==
    \A p \in Producers : \A k \in 1..Pulls(p) :
        /\ (arg_axiom = <<"A">> /\ "A" \in DOMAIN arg_rules
                /\ arg_rules["A"] = <<"A", "A">>)
              => returned[p][k] = Some([i \in 1..(2 ^ (k - 1)) |-> "A"])
        /\ (k > 1 /\ returned[p][k - 1].tag = "Some" /\ returned[p][k].tag = "Some")
              => Len(returned[p][k].val) = SumLen(arg_rules, returned[p][k - 1].val)

C9_Witness ==
    \E p \in Producers :
        /\ arg_axiom = <<"A">>
        /\ "A" \in DOMAIN arg_rules
        /\ arg_rules["A"] = <<"A", "A">>
        /\ Pulls(p) = 4
        /\ Len(returned[p][4].val) = 8

\* C10: with the rule s -> [s] every next() returns the axiom.
C10_IdentityRule ==
    arg_rules = identity_rule =>
        \A p \in Producers : \A k \in 1..Pulls(p) :
            returned[p][k] = Some(arg_axiom)

C10_Witness ==
    \E p \in Producers :
        /\ arg_rules = identity_rule
        /\ arg_axiom = <<"A", "B">>
        /\ Pulls(p) = 4
        /\ iters[p].current_state = <<"A", "B">>

\* C11: a producer is created axiom-pending (zeroth, state = axiom); its
\* first next() clears the flag and leaves the state the axiom; the flag is
\* never set again, so it is set at exactly the first next() of a producer
\* and every later next() finds it cleared and rewrites.
C11_FlagInv ==
    \A p \in Producers :
        iters[p].live =>
            /\ iters[p].zeroth <=> Pulls(p) = 0
            /\ Pulls(p) <= 1 => iters[p].current_state = arg_axiom
            /\ \A k \in 2..Pulls(p) :
                  returned[p][k].tag = "Some" =>
                      returned[p][k].val = Generation(arg_rules, arg_axiom, k - 1)

\* Once a producer is advancing it stays advancing.
C11_NoReturn ==
    \A p \in Producers :
        (iters[p].live /\ ~iters[p].zeroth) => (iters'[p].live /\ ~iters'[p].zeroth)

\* C11: the producer state machine: AxiomPending at creation, Advancing
\* after the first next() with the state still the axiom, never back.
C11_StateMachine == [](C11_FlagInv) /\ [][C11_NoReturn]_vars

C11_Witness ==
    /\ arg_axiom = <<"B">>
    /\ arg_rules = algae_rule
    /\ Pulls(1) = 1
    /\ ~iters[1].zeroth
    /\ iters[1].current_state = <<"B">>
    /\ Pulls(2) = 3
    /\ ~iters[2].zeroth
    /\ iters[2].current_state = <<"A", "B">>

\* The generation producer p held when its k-th next() was called (k >= 2):
\* the value of the latest call before it that returned.
GenBefore(p, k) ==
    LET j == CHOOSE j \in 1..(k - 1) :
                 /\ returned[p][j].tag = "Some"
                 /\ \A i \in (j + 1)..(k - 1) : returned[p][i].tag # "Some"
    IN  returned[p][j].val

\* C12: after every next() that returns, the producer's generation state
\* equals the sequence that call returned.
C12_EmittedEqualsRetained ==
    \A p \in Producers :
        (Pulls(p) >= 1 /\ returned[p][Pulls(p)].tag = "Some")
            => iters[p].current_state = returned[p][Pulls(p)].val

C12_Witness ==
    \E p \in Producers :
        /\ arg_axiom = <<"B">>
        /\ arg_rules = algae_rule
        /\ Pulls(p) = 4
        /\ returned[p][4] = Some(<<"A", "B", "A">>)
        /\ iters[p].current_state = <<"A", "B", "A">>

\* A next() fails exactly when the rule is undefined on a symbol of the
\* generation it rewrites, and after a failed next() the producer holds the
\* generation it held before, with the flag cleared as before.
C13_FailureInv ==
    \A p \in Producers :
        /\ \A k \in 2..Pulls(p) :
              (returned[p][k] = Panicked) <=> ~DefinedOn(arg_rules, GenBefore(p, k))
        /\ (Pulls(p) >= 1 /\ returned[p][Pulls(p)] = Panicked)
              => /\ ~iters[p].zeroth
                 /\ iters[p].current_state = GenBefore(p, Pulls(p))

\* A next() that fails leaves the producer as it was before the call.
C13_FailureFrame ==
    \A p \in Producers :
        (iters[p].live /\ returned'[p] = Append(returned[p], Panicked))
            => iters'[p] = iters[p]

\* C13: a failure of the rule during next() propagates out of next() and
\* leaves the generation state and the zeroth flag as they were before the
\* call; the state is never a partially built concatenation.
C13_NoPartialFailure == [](C13_FailureInv) /\ [][C13_FailureFrame]_vars

C13_Witness ==
    \E p \in Producers :
        /\ arg_axiom = <<"A">>
        /\ DOMAIN arg_rules = {"A"}
        /\ arg_rules["A"] = <<"A", "B">>
        /\ Pulls(p) = 4
        /\ returned[p][2] = Some(<<"A", "B">>)
        /\ returned[p][3] = Panicked
        /\ calls[p][3] = <<"A", "B">>
        /\ returned[p][4] = Panicked
        /\ iters[p].current_state = <<"A", "B">>

\* The elements of g up to and including the first one the rule is not
\* defined on.
UpToFirstUndefined(rules, g) ==
    LET i == CHOOSE i \in 1..Len(g) :
                 /\ g[i] \notin DOMAIN rules
                 /\ \A j \in 1..(i - 1) : g[j] \in DOMAIN rules
    IN  SubSeq(g, 1, i)

\* The first next() of a producer invokes the rule zero times and returns,
\* also when the rule is undefined on a symbol of the axiom.
C14_FirstCall ==
    \A p \in Producers :
        Pulls(p) >= 1 => (calls[p][1] = <<>> /\ returned[p][1].tag = "Some")

\* C14 as claimed: the first next() invokes the rule zero times; every later
\* next() invokes it exactly once per element of the current generation,
\* left to right, i.e. exactly len(current generation) times.
C14_AsClaimed ==
    /\ C14_FirstCall
    /\ \A p \in Producers : \A k \in 2..Pulls(p) :
          calls[p][k] = GenBefore(p, k)

\* C14, amended: the first next() invokes the rule zero times; every later
\* next() that returns invokes it exactly once per element of the current
\* generation, left to right; a later next() in which the rule fails invokes
\* it on the elements up to and including the first one it fails on.
C14_InvocationOrder ==
    /\ C14_FirstCall
    /\ \A p \in Producers : \A k \in 2..Pulls(p) :
          calls[p][k] =
              IF returned[p][k].tag = "Some"
              THEN GenBefore(p, k)
              ELSE UpToFirstUndefined(arg_rules, GenBefore(p, k))

C14_Witness ==
    \E p \in Producers :
        /\ arg_axiom = <<"A">>
        /\ DOMAIN arg_rules = {"A"}
        /\ arg_rules["A"] = <<"B", "A">>
        /\ Pulls(p) = 3
        /\ calls[p][1] = <<>>
        /\ returned[p][2] = Some(<<"B", "A">>)
        /\ calls[p][2] = <<"A">>
        /\ returned[p][3] = Panicked
        /\ calls[p][3] = <<"B">>

\* The k-th value pulled from a fresh producer of the grammar new(axiom, rules).
KthPulled(axiom, rules, k) == PulledAlone(iter(new(axiom, rules)), k)[k]

\* C15: for every split of the axiom into X ++ Y, the k-th value pulled from
\* a producer of the grammar with axiom X ++ Y is the k-th value pulled from
\* a producer with axiom X concatenated with that of a producer with axiom
\* Y, under the same rule; it fails exactly when one of the two fails.
C15_ContextFree ==
    \A p \in Producers : \A k \in 1..Pulls(p) : \A i \in 0..Len(arg_axiom) :
        LET X == SubSeq(arg_axiom, 1, i)
            Y == SubSeq(arg_axiom, i + 1, Len(arg_axiom))
            x == KthPulled(X, arg_rules, k)
            y == KthPulled(Y, arg_rules, k)
        IN  IF returned[p][k].tag = "Some"
            THEN /\ x.tag = "Some"
                 /\ y.tag = "Some"
                 /\ returned[p][k].val = x.val \o y.val
            ELSE x.tag # "Some" \/ y.tag # "Some"

C15_Witness ==
    \E p \in Producers :
        /\ arg_axiom = <<"A", "B">>
        /\ arg_rules = algae_rule
        /\ Pulls(p) = 3
        /\ KthPulled(<<"A">>, arg_rules, 3) = Some(<<"A", "B", "A">>)
        /\ KthPulled(<<"B">>, arg_rules, 3) = Some(<<"A", "B">>)
        /\ returned[p][3] = Some(<<"A", "B", "A", "A", "B">>)

====
